---- MODULE Spec2Model ----
(***************************************************************************)
(* Model of main.py, the SQLite inventory server of mcp-utils.             *)
(*                                                                         *)
(* The database file inventory.db is shared by every server process, so    *)
(* the committed tables (items, stock_history) are global state and each   *)
(* process has its own connection, cursor, local variables and pending     *)
(* (uncommitted) transaction.  sqlite3.connect is used with its default    *)
(* isolation level: a SELECT runs outside any transaction, the first       *)
(* UPDATE/INSERT opens a deferred transaction that takes the database      *)
(* write lock, and conn.commit() publishes its writes in one step.         *)
(*                                                                         *)
(* Item names are transliterated: "notebook" = 노트북, "mouse" = 마우스,     *)
(* "keyboard" = 키보드.  A timestamp string "YYYY-MM-DD HH:MM:SS" is the    *)
(* pair <<day, second-of-day>>; TEXT comparison of two such strings is the *)
(* lexicographic order of the pairs.  A pendulum instant is the triple     *)
(* <<day, second, microsecond>>.                                           *)
(***************************************************************************)
EXTENDS Integers, Sequences, FiniteSets, TLC

VARIABLES
    items,          \* committed table items: id -> row
    stock_history,  \* committed table stock_history: sequence of rows, id = index
    lock,           \* connection holding the database write lock, 0 = none
    clock,          \* wall clock, <<day, second>>
    pc,             \* per process: position in the running tool call
    args,           \* per process: arguments of the running change_item_stock call
    row,            \* per process: locals item_id, stock, new_stock, now
    tx,             \* per process: writes of its open transaction, not yet committed
    result          \* the most recent return: the tool, its value, and whether
                    \* the call had closed its connection when it returned

vars == <<items, stock_history, lock, clock, pc, args, row, tx, result>>

----------------------------------------------------------------------------
(* Bounds of the model *)

NumProcs == 2       \* server processes sharing inventory.db
MaxEvents == 2      \* change_item_stock calls are started while fewer rows exist
MaxDay == 1         \* the clock runs over days 0..MaxDay
SecPerDay == 2      \* seconds in a day (86400), scaled down
UsPerSec == 2       \* microseconds in a second (1000000), scaled down

Procs == 1..NumProcs
Days == 0..MaxDay
LastSec == SecPerDay - 1
LastUs == UsPerSec - 1

(* Inputs of the tool calls *)
None == "None"                                   \* Python's None
Names == {"notebook", "mouse", "ghost"}          \* "ghost" names no item
Deltas == {-10, 0, 4}
Reasons == {None, "sale"}
\* a date string: "YYYY-MM-DD" of day d, or one that is no calendar date
DateOf(d) == [wellformed |-> TRUE, day |-> d]
InvalidDate == [wellformed |-> FALSE, day |-> 0]            \* "not-a-date"
DateArgs == {DateOf(d) : d \in Days} \cup {InvalidDate}

----------------------------------------------------------------------------
(* init_db: the seeded items table, an empty stock_history *)

SeedTime == <<0, 0>>

SeedItems ==
    <<[name |-> "notebook", price |-> 1200000, stock |-> 10],
      [name |-> "mouse",    price |-> 25000,   stock |-> 50],
      [name |-> "keyboard", price |-> 70000,   stock |-> 30]>>

ItemIds == DOMAIN SeedItems

init_db ==
    /\ items = [i \in ItemIds |->
                  [id |-> i, name |-> SeedItems[i].name, price |-> SeedItems[i].price,
                   stock |-> SeedItems[i].stock,
                   created_at |-> SeedTime, updated_at |-> SeedTime]]
    /\ stock_history = <<>>

----------------------------------------------------------------------------
(* pendulum *)

\* pendulum.now(): an instant within the clock's current second
NowInstants == {<<clock[1], clock[2], us>> : us \in 0..LastUs}

\* pendulum.parse(date) for a YYYY-MM-DD string: midnight of that day
parse(date) == <<date.day, 0, 0>>

start_of_day(t) == <<t[1], 0, 0>>

end_of_day(t) == <<t[1], LastSec, LastUs>>

\* to_datetime_string: "YYYY-MM-DD HH:MM:SS", the microseconds are dropped
to_datetime_string(t) == <<t[1], t[2]>>

\* TEXT comparison of two timestamp strings
TextLE(a, b) == a[1] < b[1] \/ (a[1] = b[1] /\ a[2] <= b[2])

----------------------------------------------------------------------------
(* SQL *)

\* faulty variant: the WHERE clause left out
SelectAnyName(it, n) == {it[i] : i \in ItemIds}

\* SELECT ... FROM items WHERE name=? on table it: the matching rows
SelectByName(it, n) == {it[i] : i \in {j \in ItemIds : it[j].name = n}}

\* fetchone() of a result that is not empty
fetchone(rows) == CHOOSE r \in rows : TRUE

\* line 99, 123: reason or '-'
OrDash(reason) == IF reason \in {None, ""} THEN "-" ELSE reason

\* a transaction with no write yet
NoTx == <<>>

\* the locals of a process that runs no call
NoArgs == [name |-> "ghost", delta |-> 0, reason |-> None]
NoRow == [item_id |-> 1, stock |-> 0, new_stock |-> 0, now |-> SeedTime]

\* a call of tool returns (or raises) v; closed: conn.close() ran on that path
Return(tool, v, closed) == [tool |-> tool, value |-> v, closed |-> closed]

----------------------------------------------------------------------------
(* get_item_stock_price *)

\* line 70-76: what the call returns for name n on the items table it
get_item_stock_price_result(it, n) ==
    LET rows == SelectByName(it, n)
    IN  IF rows # {} THEN <<"found", n, fetchone(rows).price, fetchone(rows).stock>>
                     ELSE <<"not_found", n>>

get_item_stock_price(p) ==
    /\ pc[p] = "idle"
    /\ \E n \in Names :
          result' = Return("get_item_stock_price", get_item_stock_price_result(items, n), TRUE)
    /\ UNCHANGED <<items, stock_history, lock, clock, pc, args, row, tx>>

----------------------------------------------------------------------------
(* change_item_stock *)

InFlight == {q \in Procs : pc[q] # "idle"}

\* faulty variant: the delta applied with the wrong sign
NewStockMinus(stock, delta) == stock - delta

\* line 89: new_stock = stock + delta
NewStock(stock, delta) == stock + delta

\* faulty variant: the check left out
InsufficientUnchecked(new_stock) == FALSE

\* faulty variant: an adjustment down to exactly zero is refused
InsufficientAtZero(new_stock) == new_stock <= 0

\* line 90: if new_stock < 0
Insufficient(new_stock) == new_stock < 0

\* faulty variant: the message shows the stock the adjustment would have left
InsufficientMessageNew(stock, new_stock) == <<"insufficient", new_stock>>

\* line 92: the message shows stock, the value read before the adjustment
InsufficientMessage(stock, new_stock) == <<"insufficient", stock>>

\* faulty variant: an absent reason is stored as it came
OrEmptyNone(reason) == reason

\* line 96: reason or ''
OrEmpty(reason) == IF reason \in {None, ""} THEN "" ELSE reason

\* line 81-82: the call starts and opens its connection
Connect(p) ==
    /\ pc[p] = "idle"
    /\ Len(stock_history) + Cardinality(InFlight) < MaxEvents
    /\ \E n \in Names, d \in Deltas, r \in Reasons :
          args' = [args EXCEPT ![p] = [name |-> n, delta |-> d, reason |-> r]]
    /\ pc' = [pc EXCEPT ![p] = "select"]
    /\ UNCHANGED <<items, stock_history, lock, clock, row, tx, result>>

\* line 83-93: read the row, reject or compute new_stock and now
Select(p) ==
    /\ pc[p] = "select"
    /\ LET rows == SelectByName(items, args[p].name)
           r == fetchone(rows)
       IN  IF rows = {}
           THEN /\ result' = Return("change_item_stock", <<"not_found", args[p].name>>, TRUE)
                /\ pc' = [pc EXCEPT ![p] = "idle"]
                /\ args' = [args EXCEPT ![p] = NoArgs]
                /\ UNCHANGED row
           ELSE LET new_stock == NewStock(r.stock, args[p].delta)
                IN  IF Insufficient(new_stock)
                    THEN /\ result' = Return("change_item_stock",
                                             InsufficientMessage(r.stock, new_stock), TRUE)
                         /\ pc' = [pc EXCEPT ![p] = "idle"]
                         /\ args' = [args EXCEPT ![p] = NoArgs]
                         /\ UNCHANGED row
                    ELSE /\ \E t \in NowInstants :
                              row' = [row EXCEPT ![p] =
                                        [item_id |-> r.id, stock |-> r.stock,
                                         new_stock |-> new_stock,
                                         now |-> to_datetime_string(t)]]
                         /\ pc' = [pc EXCEPT ![p] = "update"]
                         /\ UNCHANGED <<result, args>>
    /\ UNCHANGED <<items, stock_history, lock, clock, tx>>

\* faulty variant: the writes issued before the exception are committed on the way out
RaiseCommits(p) ==
    /\ items' = [items EXCEPT ![row[p].item_id].stock =
                    IF tx[p] # NoTx THEN row[p].new_stock ELSE @]
    /\ tx' = [tx EXCEPT ![p] = NoTx]
    /\ lock' = IF lock = p THEN 0 ELSE lock
    /\ result' = Return("change_item_stock", <<"raised">>, FALSE)
    /\ pc' = [pc EXCEPT ![p] = "idle"]
    /\ args' = [args EXCEPT ![p] = NoArgs]
    /\ row' = [row EXCEPT ![p] = NoRow]
    /\ UNCHANGED <<stock_history, clock>>

\* An exception leaves change_item_stock before commit and close: the call
\* ends without a return value, and the connection object, dropped with the
\* frame, rolls its open transaction back and gives up the write lock
Raise(p) ==
    /\ tx' = [tx EXCEPT ![p] = NoTx]
    /\ lock' = IF lock = p THEN 0 ELSE lock
    /\ result' = Return("change_item_stock", <<"raised">>, FALSE)
    /\ pc' = [pc EXCEPT ![p] = "idle"]
    /\ args' = [args EXCEPT ![p] = NoArgs]
    /\ row' = [row EXCEPT ![p] = NoRow]
    /\ UNCHANGED <<items, stock_history, clock>>

\* faulty variant: the connection in autocommit mode, the UPDATE is published at once
UpdateAutocommit(p) ==
    /\ pc[p] = "update"
    /\ lock = 0
    /\ items' = [items EXCEPT ![row[p].item_id].stock = row[p].new_stock,
                              ![row[p].item_id].updated_at = row[p].now]
    /\ pc' = [pc EXCEPT ![p] = "insert"]
    /\ UNCHANGED <<stock_history, lock, tx, clock, args, row, result>>

\* faulty variant: the UPDATE sets stock only and leaves updated_at as it was
UpdateKeepsTimestamp(p) ==
    /\ pc[p] = "update"
    /\ lock = 0
    /\ lock' = p
    /\ tx' = [tx EXCEPT ![p] = Append(@,
                [op |-> "update", item_id |-> row[p].item_id,
                 stock |-> row[p].new_stock,
                 updated_at |-> items[row[p].item_id].updated_at])]
    /\ pc' = [pc EXCEPT ![p] = "insert"]
    /\ UNCHANGED <<items, stock_history, clock, args, row, result>>

\* line 94: implicit BEGIN, then UPDATE items: takes the write lock
Update(p) ==
    /\ pc[p] = "update"
    /\ lock = 0
    /\ lock' = p
    /\ tx' = [tx EXCEPT ![p] = Append(@,
                [op |-> "update", item_id |-> row[p].item_id,
                 stock |-> row[p].new_stock, updated_at |-> row[p].now])]
    /\ pc' = [pc EXCEPT ![p] = "insert"]
    /\ UNCHANGED <<items, stock_history, clock, args, row, result>>

\* line 94: another connection holds the write lock until the busy timeout
\* expires: sqlite3.OperationalError ("database is locked")
UpdateBusy(p) ==
    /\ pc[p] = "update"
    /\ lock \notin {0, p}
    /\ Raise(p)

\* faulty variant: the INSERT runs twice
InsertTwice(p) ==
    /\ pc[p] = "insert"
    /\ LET e == [op |-> "insert", item_id |-> row[p].item_id, delta |-> args[p].delta,
                 reason |-> OrEmpty(args[p].reason), created_at |-> row[p].now]
       IN  tx' = [tx EXCEPT ![p] = Append(Append(@, e), e)]
    /\ pc' = [pc EXCEPT ![p] = "commit"]
    /\ UNCHANGED <<items, stock_history, lock, clock, args, row, result>>

\* faulty variant: an adjustment by zero records no event
InsertSkipsZero(p) ==
    /\ pc[p] = "insert"
    /\ tx' = IF args[p].delta = 0 THEN tx
             ELSE [tx EXCEPT ![p] = Append(@,
                     [op |-> "insert", item_id |-> row[p].item_id,
                      delta |-> args[p].delta, reason |-> OrEmpty(args[p].reason),
                      created_at |-> row[p].now])]
    /\ pc' = [pc EXCEPT ![p] = "commit"]
    /\ UNCHANGED <<items, stock_history, lock, clock, args, row, result>>

\* faulty variant: the event is recorded under an id no item has
InsertDangling(p) ==
    /\ pc[p] = "insert"
    /\ tx' = [tx EXCEPT ![p] = Append(@,
                [op |-> "insert", item_id |-> row[p].item_id + Cardinality(ItemIds),
                 delta |-> args[p].delta, reason |-> OrEmpty(args[p].reason),
                 created_at |-> row[p].now])]
    /\ pc' = [pc EXCEPT ![p] = "commit"]
    /\ UNCHANGED <<items, stock_history, lock, clock, args, row, result>>

\* line 95-96: INSERT INTO stock_history inside the open transaction
Insert(p) ==
    /\ pc[p] = "insert"
    /\ tx' = [tx EXCEPT ![p] = Append(@,
                [op |-> "insert", item_id |-> row[p].item_id, delta |-> args[p].delta,
                 reason |-> OrEmpty(args[p].reason),
                 created_at |-> row[p].now])]
    /\ pc' = [pc EXCEPT ![p] = "commit"]
    /\ UNCHANGED <<items, stock_history, lock, clock, args, row, result>>

\* line 95: the INSERT fails (sqlite3.Error): the exception leaves the function
InsertFail(p) ==
    /\ pc[p] = "insert"
    /\ Raise(p)

\* faulty variant: the UPDATE without its WHERE clause, every row is written
RECURSIVE ApplyItemsAllRows(_, _)
ApplyItemsAllRows(tbl, t) ==
    IF t = <<>> THEN tbl
    ELSE LET w == Head(t)
         IN  ApplyItemsAllRows(IF w.op = "update"
                               THEN [i \in DOMAIN tbl |->
                                       [tbl[i] EXCEPT !.stock = w.stock,
                                                      !.updated_at = w.updated_at]]
                               ELSE tbl,
                               Tail(t))

\* The committed tables after the writes of transaction t are applied
RECURSIVE ApplyItems(_, _)
ApplyItems(tbl, t) ==
    IF t = <<>> THEN tbl
    ELSE LET w == Head(t)
         IN  ApplyItems(IF w.op = "update"
                        THEN [tbl EXCEPT ![w.item_id].stock = w.stock,
                                         ![w.item_id].updated_at = w.updated_at]
                        ELSE tbl,
                        Tail(t))

RECURSIVE ApplyHistory(_, _)
ApplyHistory(tbl, t) ==
    IF t = <<>> THEN tbl
    ELSE LET w == Head(t)
         IN  ApplyHistory(IF w.op = "insert"
                          THEN Append(tbl, [item_id |-> w.item_id, delta |-> w.delta,
                                            reason |-> w.reason,
                                            created_at |-> w.created_at])
                          ELSE tbl,
                          Tail(t))

\* line 97-99: commit, close, return the change message
Commit(p) ==
    /\ pc[p] = "commit"
    /\ items' = ApplyItems(items, tx[p])
    /\ stock_history' = ApplyHistory(stock_history, tx[p])
    /\ tx' = [tx EXCEPT ![p] = NoTx]
    /\ lock' = 0
    /\ result' = Return("change_item_stock",
                        <<"changed", args[p].name, row[p].stock, row[p].new_stock,
                          args[p].delta, OrDash(args[p].reason)>>,
                        TRUE)
    /\ pc' = [pc EXCEPT ![p] = "idle"]
    /\ args' = [args EXCEPT ![p] = NoArgs]
    /\ row' = [row EXCEPT ![p] = NoRow]
    /\ UNCHANGED clock

----------------------------------------------------------------------------
(* get_stock_history_by_date *)

\* faulty variant: the end of the range taken as exclusive
BetweenExclusive(sh, start, end) ==
    {k \in DOMAIN sh :
        /\ TextLE(start, sh[k].created_at)
        /\ TextLE(sh[k].created_at, end)
        /\ sh[k].created_at # end
        /\ sh[k].item_id \in ItemIds}

\* FROM stock_history JOIN items WHERE created_at BETWEEN start AND end:
\* the ids of the matching rows of table sh
Between(sh, start, end) ==
    {k \in DOMAIN sh :
        /\ TextLE(start, sh[k].created_at)
        /\ TextLE(sh[k].created_at, end)
        /\ sh[k].item_id \in ItemIds}

\* ORDER BY created_at ASC: insertion of row id k into a sorted sequence of ids
RECURSIVE InsertSorted(_, _, _)
InsertSorted(sh, s, k) ==
    IF s = <<>> THEN <<k>>
    ELSE IF TextLE(sh[s[Len(s)]].created_at, sh[k].created_at)
         THEN Append(s, k)
         ELSE Append(InsertSorted(sh, SubSeq(s, 1, Len(s) - 1), k), s[Len(s)])

RECURSIVE OrderBy(_, _)
OrderBy(sh, ids) ==
    IF ids = {} THEN <<>>
    ELSE LET k == CHOOSE x \in ids : \A y \in ids : y <= x
         IN  InsertSorted(sh, OrderBy(sh, ids \ {k}), k)

\* the row ids in ascending order, as a sequence
RECURSIVE RowidOrder(_)
RowidOrder(ids) ==
    IF ids = {} THEN <<>>
    ELSE LET k == CHOOSE x \in ids : \A y \in ids : y <= x
         IN  Append(RowidOrder(ids \ {k}), k)

\* faulty variant: the ORDER BY clause left out, the rows come in rowid order
QueryIdsUnordered(sh, start, end) == RowidOrder(Between(sh, start, end))

\* line 112-118: the ids of the rows the query returns, in the order returned
QueryIds(sh, start, end) == OrderBy(sh, Between(sh, start, end))

\* line 112-119: the rows (name, delta, reason, created_at) of the query on
\* the tables it (items) and sh (stock_history)
QueryRows(it, sh, start, end) ==
    LET ids == QueryIds(sh, start, end)
    IN  [j \in DOMAIN ids |->
            <<it[sh[ids[j]].item_id].name, sh[ids[j]].delta,
              sh[ids[j]].reason, sh[ids[j]].created_at>>]

\* line 123: one formatted line per row
FormatRow(r) == <<r[4], r[1], r[2], OrDash(r[3])>>

\* faulty variant: a date that does not parse falls back to its default day
HistoryResultParsesAnything(it, sh, date) ==
    LET start == to_datetime_string(start_of_day(parse(date)))
        end == to_datetime_string(end_of_day(parse(date)))
        rows == QueryRows(it, sh, start, end)
    IN  IF rows = <<>> THEN <<"no_history", date>>
        ELSE <<"history", [j \in DOMAIN rows |-> FormatRow(rows[j])]>>

\* faulty variant: the test for an empty result left out
HistoryResultNoEmptyCheck(it, sh, date) ==
    IF ~date.wellformed THEN <<"invalid_date">>
    ELSE LET start == to_datetime_string(start_of_day(parse(date)))
             end == to_datetime_string(end_of_day(parse(date)))
             rows == QueryRows(it, sh, start, end)
         IN  <<"history", [j \in DOMAIN rows |-> FormatRow(rows[j])]>>

\* line 107-124: what the call returns for date on the tables it and sh
get_stock_history_by_date_result(it, sh, date) ==
    IF ~date.wellformed THEN <<"invalid_date">>
    ELSE LET start == to_datetime_string(start_of_day(parse(date)))
             end == to_datetime_string(end_of_day(parse(date)))
             rows == QueryRows(it, sh, start, end)
         IN  IF rows = <<>> THEN <<"no_history", date>>
             ELSE <<"history", [j \in DOMAIN rows |-> FormatRow(rows[j])]>>

get_stock_history_by_date(p) ==
    /\ pc[p] = "idle"
    /\ \E date \in DateArgs :
          result' = Return("get_stock_history_by_date",
                           get_stock_history_by_date_result(items, stock_history, date),
                           date.wellformed)
    /\ UNCHANGED <<items, stock_history, lock, clock, pc, args, row, tx>>

----------------------------------------------------------------------------
(* The clock *)

Tick ==
    /\ \E d \in Days, s \in 0..LastSec :
          /\ TextLE(clock, <<d, s>>)
          /\ clock # <<d, s>>
          /\ clock' = <<d, s>>
    /\ UNCHANGED <<items, stock_history, lock, pc, args, row, tx, result>>

----------------------------------------------------------------------------

Init ==
    /\ init_db
    /\ lock = 0
    /\ clock = SeedTime
    /\ pc = [p \in Procs |-> "idle"]
    /\ args = [p \in Procs |-> NoArgs]
    /\ row = [p \in Procs |-> NoRow]
    /\ tx = [p \in Procs |-> NoTx]
    /\ result = Return("none", <<"none">>, TRUE)

\* Server processes run their tool calls concurrently on the shared database
Next ==
    \/ \E p \in Procs :
          \/ get_item_stock_price(p)
          \/ Connect(p)
          \/ Select(p)
          \/ Update(p)
          \/ UpdateBusy(p)
          \/ Insert(p)
          \/ InsertFail(p)
          \/ Commit(p)
          \/ get_stock_history_by_date(p)
    \/ Tick

Spec == Init /\ [][Next]_vars

\* Tool calls executed one at a time: a call takes steps only while no other
\* process is inside a call
OneAtATime(p) == \A q \in Procs \ {p} : pc[q] = "idle"

NextSeq ==
    \/ \E p \in Procs : OneAtATime(p) /\ get_item_stock_price(p)
    \/ \E p \in Procs : OneAtATime(p) /\ Connect(p)
    \/ \E p \in Procs : OneAtATime(p) /\ Select(p)
    \/ \E p \in Procs : OneAtATime(p) /\ Update(p)
    \/ \E p \in Procs : OneAtATime(p) /\ Insert(p)
    \/ \E p \in Procs : OneAtATime(p) /\ InsertFail(p)
    \/ \E p \in Procs : OneAtATime(p) /\ Commit(p)
    \/ \E p \in Procs : OneAtATime(p) /\ get_stock_history_by_date(p)
    \/ Tick

SpecSeq == Init /\ [][NextSeq]_vars

----------------------------------------------------------------------------
(* Properties *)

RECURSIVE SumDeltasUpTo(_, _)
SumDeltasUpTo(i, n) ==
    IF n = 0 THEN 0
    ELSE SumDeltasUpTo(i, n - 1)
         + (IF stock_history[n].item_id = i THEN stock_history[n].delta ELSE 0)

\* sum of the deltas of all Stock Events of item i
SumDeltas(i) == SumDeltasUpTo(i, Len(stock_history))

StockMatchesHistory(i) == items[i].stock = SeedItems[i].stock + SumDeltas(i)

IsChange(kind) == result.tool = "change_item_stock" /\ result.value[1] = kind

\* the ids of the items named n
Named(n) == {i \in ItemIds : items[i].name = n}

\* process p takes the step that follows its SELECT
LeavesSelect(p) == pc[p] = "select" /\ pc'[p] # "select"

\* C1: with the calls executed one at a time, accepted or rejected, every
\* item's committed stock is its stock at creation plus the sum of the deltas
\* of its Stock Events.
C1_StockIsSeedPlusDeltas == \A i \in ItemIds : StockMatchesHistory(i)

\* an adjustment was committed and a later one was rejected
C1_Witness ==
    /\ IsChange("insufficient")
    /\ Len(stock_history) >= 1
    /\ stock_history[1].delta # 0

\* C2: in every reachable state, interleaved concurrent adjustments included,
\* every item's stock is an integer >= 0.
C2_StockNonNegative == \A i \in ItemIds : items[i].stock \in Nat

\* two interleaved adjustments of -10 on the item seeded with 10 both committed
C2_Witness ==
    \E i \in ItemIds :
        /\ SeedItems[i].stock = 10
        /\ SumDeltas(i) = -20
        /\ items[i].stock = 0

\* C3: when the item exists and its committed stock plus delta is negative,
\* the call returns InsufficientStock with that committed stock and writes
\* nothing: items, stock_history and every open transaction stay as they were.
C3_InsufficientRejectsUnchanged ==
    [][\A p \in Procs :
          (/\ LeavesSelect(p)
           /\ \E i \in Named(args[p].name) : items[i].stock + args[p].delta < 0)
          => /\ pc'[p] = "idle"
             /\ result'.tool = "change_item_stock"
             /\ \E i \in Named(args[p].name) :
                    result'.value = <<"insufficient", items[i].stock>>
             /\ items' = items
             /\ stock_history' = stock_history
             /\ tx' = tx]_vars

\* a rejection that reports a stock left by an earlier adjustment
C3_Witness ==
    /\ IsChange("insufficient")
    /\ \E i \in ItemIds :
          /\ result.value[2] = items[i].stock
          /\ items[i].stock # SeedItems[i].stock
          /\ result.value[2] - 10 < 0

\* C4: when the name matches no item the call returns NotFound and writes
\* nothing: no item row changes, no Stock Event is appended, no transaction
\* is opened.
C4_UnknownNameNoWrite ==
    [][\A p \in Procs :
          (LeavesSelect(p) /\ Named(args[p].name) = {})
          => /\ pc'[p] = "idle"
             /\ result'.tool = "change_item_stock"
             /\ result'.value = <<"not_found", args[p].name>>
             /\ items' = items
             /\ stock_history' = stock_history
             /\ tx' = tx
             /\ lock' = lock]_vars

\* change_item_stock returned NotFound for a name that matches no item
C4_Witness ==
    /\ IsChange("not_found")
    /\ Named(result.value[2]) = {}

\* C5: concurrent adjustments are serialized: the stock a call read is still
\* the committed stock when the call commits, and no update is lost.
C5_SerializedNoLostUpdate ==
    /\ \A p \in Procs :
          pc[p] = "commit" => items[row[p].item_id].stock = row[p].stock
    /\ \A i \in ItemIds : StockMatchesHistory(i)

\* the event a transaction appends, and the items table it leaves
EventOf(p) ==
    [item_id |-> row[p].item_id, delta |-> args[p].delta,
     reason |-> OrEmpty(args[p].reason), created_at |-> row[p].now]

ItemsAfter(p) ==
    [items EXCEPT ![row[p].item_id].stock = row[p].new_stock,
                  ![row[p].item_id].updated_at = row[p].now]

\* C6: the tables a reader sees change only in a step that publishes a new
\* stock value together with its Stock Event: never one without the other.
C6_StockAndEventTogether ==
    [][(items' # items \/ stock_history' # stock_history)
          => \E p \in Procs :
                /\ pc[p] = "commit"
                /\ items' = ItemsAfter(p)
                /\ stock_history' = Append(stock_history, EventOf(p))]_vars

\* a transaction holds both writes uncommitted while the last lookup returned
\* the item's stock without them
C6_Witness ==
    \E p \in Procs :
        /\ pc[p] = "commit"
        /\ Len(tx[p]) = 2
        /\ row[p].new_stock # row[p].stock
        /\ result.tool = "get_item_stock_price"
        /\ result.value = <<"found", args[p].name,
                            items[row[p].item_id].price, row[p].stock>>

\* C7: a call whose UPDATE or INSERT fails ends without a success result and
\* leaves the committed tables as they were; its issued writes are dropped.
C7_FailedWriteAllOrNothing ==
    [][\A p \in Procs :
          (pc[p] \in {"update", "insert"} /\ pc'[p] = "idle")
          => /\ result'.tool = "change_item_stock"
             /\ result'.value = <<"raised">>
             /\ items' = items
             /\ stock_history' = stock_history
             /\ tx'[p] = NoTx
             /\ lock' # p]_vars

\* the last call raised, and every write it had issued is gone
C7_Witness ==
    /\ IsChange("raised")
    /\ stock_history = <<>>
    /\ \A i \in ItemIds : items[i].stock = SeedItems[i].stock
    /\ \A p \in Procs : tx[p] = NoTx

\* the entries of a history result
Entries(v) == IF v[1] = "history" THEN v[2] ELSE <<>>

RemoveAt(s, k) == SubSeq(s, 1, k - 1) \o SubSeq(s, k + 1, Len(s))

HistoryOfDay(it, sh, d) == Entries(get_stock_history_by_date_result(it, sh, DateOf(d)))

\* C8: with the calls executed one at a time, once an adjustment has
\* succeeded lookup returns the stock before the call plus delta, and the
\* history of the adjustment's day holds exactly one entry more than before,
\* with the item's name, the delta and the reason of the call.
C8_LookupAndHistoryReflect ==
    [][\A p \in Procs :
          (pc[p] = "commit" /\ pc'[p] = "idle")
          => LET i == row[p].item_id
                 n == args[p].name
                 before == HistoryOfDay(items, stock_history, row[p].now[1])
                 after == HistoryOfDay(items', stock_history', row[p].now[1])
             IN  /\ get_item_stock_price_result(items', n)
                      = <<"found", n, items[i].price, items[i].stock + args[p].delta>>
                 /\ \E k \in DOMAIN after :
                       /\ after[k] = <<row[p].now, n, args[p].delta,
                                       IF args[p].reason = None
                                       THEN "-" ELSE args[p].reason>>
                       /\ RemoveAt(after, k) = before]_vars

\* an adjustment with a reason succeeded on a day that had an entry already
C8_Witness ==
    /\ IsChange("changed")
    /\ result.value[6] = "sale"
    /\ Len(stock_history) = 2
    /\ stock_history[1].created_at[1] = stock_history[2].created_at[1]
    /\ stock_history[2].created_at[2] = LastSec

\* C9: with the calls executed one at a time, an adjustment of an existing
\* item whose committed stock plus delta is >= 0 is accepted, and when it
\* returns it reports that committed stock as previous and previous + delta
\* as new, the value then committed for the item.
C9_AcceptedAdjustment ==
    [][\A p \in Procs : \A i \in Named(args[p].name) :
          /\ (LeavesSelect(p) /\ items[i].stock + args[p].delta >= 0)
                => pc'[p] = "update"
          /\ (pc[p] = "commit" /\ pc'[p] = "idle")
                => /\ result'.tool = "change_item_stock"
                   /\ result'.value[1] = "changed"
                   /\ result'.value[3] = items[i].stock
                   /\ result'.value[4] = items[i].stock + args[p].delta
                   /\ items'[i].stock = result'.value[4]]_vars

\* an adjustment that takes the stock down to exactly zero succeeded
C9_Witness ==
    /\ IsChange("changed")
    /\ result.value[4] = 0
    /\ result.value[3] = 10
    /\ \E i \in Named(result.value[2]) : items[i].stock = 0

\* the line history shows for Stock Event k
LineOf(k) ==
    <<stock_history[k].created_at, items[stock_history[k].item_id].name,
      stock_history[k].delta,
      IF stock_history[k].reason = "" THEN "-" ELSE stock_history[k].reason>>

\* the Stock Events created on day d
EventsOfDay(d) == {k \in DOMAIN stock_history : stock_history[k].created_at[1] = d}

\* C10: for every well-formed date, history returns exactly the Stock Events
\* created on that day, each once, in ascending order of created_at.
C10_HistoryExactAndOrdered ==
    \A d \in Days :
        LET lines == HistoryOfDay(items, stock_history, d)
        IN  /\ Len(lines) = Cardinality(EventsOfDay(d))
            /\ \A k \in EventsOfDay(d) :
                  Cardinality({j \in DOMAIN lines : lines[j] = LineOf(k)})
                    = Cardinality({m \in EventsOfDay(d) : LineOf(m) = LineOf(k)})
            /\ \A j \in DOMAIN lines : \A m \in DOMAIN lines :
                  j <= m => TextLE(lines[j][1], lines[m][1])

\* history returned two entries of one day whose events were inserted in the
\* opposite order of their timestamps
C10_Witness ==
    /\ result.tool = "get_stock_history_by_date"
    /\ result.value[1] = "history"
    /\ Len(result.value[2]) = 2
    /\ \E a \in DOMAIN stock_history : \E b \in DOMAIN stock_history :
          /\ a < b
          /\ stock_history[a].created_at[1] = stock_history[b].created_at[1]
          /\ stock_history[a].created_at[2] > stock_history[b].created_at[2]
          /\ result.value[2] = <<LineOf(b), LineOf(a)>>

\* a step of a call that only reads: lookup or history
ReadOnlyStep == pc' = pc /\ clock' = clock

IsHistory(kind) == result.tool = "get_stock_history_by_date" /\ result.value[1] = kind

\* C11: for a string that is no calendar date, history returns InvalidDate
\* whatever the tables hold, and the step changes no table, transaction or lock.
C11_InvalidDateLeavesStore ==
    [][/\ get_stock_history_by_date_result(items, stock_history, InvalidDate)
            = <<"invalid_date">>
       /\ get_stock_history_by_date_result(items', stock_history', InvalidDate)
            = <<"invalid_date">>
       /\ (/\ ReadOnlyStep
           /\ result'.tool = "get_stock_history_by_date"
           /\ result'.value[1] = "invalid_date")
          => UNCHANGED <<items, stock_history, tx, lock>>]_vars

\* history returned InvalidDate while the default day has a Stock Event
C11_Witness ==
    /\ IsHistory("invalid_date")
    /\ EventsOfDay(InvalidDate.day) # {}

\* C12: for a well-formed date with no Stock Event created on that day,
\* history returns the no-events signal, which is neither InvalidDate nor a
\* list of entries.
C12_EmptyDayIsSignalled ==
    \A d \in Days :
        EventsOfDay(d) = {}
        => LET v == get_stock_history_by_date_result(items, stock_history, DateOf(d))
           IN  /\ v = <<"no_history", DateOf(d)>>
               /\ v[1] \notin {"invalid_date", "history"}

\* history returned the no-events signal for a day without events while
\* another day has one
C12_Witness ==
    /\ IsHistory("no_history")
    /\ EventsOfDay(result.value[2].day) = {}
    /\ stock_history # <<>>

\* process p takes the step that commits its transaction and returns
Commits(p) == pc[p] = "commit" /\ pc'[p] = "idle"

\* C13: the Stock Event log only grows at its end: the step in which an
\* adjustment succeeds appends exactly one event, every other step (rejected
\* or failed adjustment, lookup, history) appends none, and the events already
\* in the log keep their position (id) and all their fields.
C13_LogAppendOnly ==
    [][/\ Len(stock_history') >= Len(stock_history)
       /\ Len(stock_history') <= Len(stock_history) + 1
       /\ SubSeq(stock_history', 1, Len(stock_history)) = stock_history
       /\ (Len(stock_history') = Len(stock_history) + 1)
            <=> \E p \in Procs :
                   /\ Commits(p)
                   /\ result'.tool = "change_item_stock"
                   /\ result'.value[1] = "changed"
       /\ ReadOnlyStep => stock_history' = stock_history]_vars

\* history listed a day's entries with two Stock Events in the log
C13_Witness ==
    /\ Len(stock_history) = 2
    /\ IsHistory("history")

\* C14: with the calls executed one at a time, an adjustment by 0 of an
\* existing item passes the check, and its commit reports success, leaves the
\* item's stock as it was and appends one Stock Event of that item with delta 0.
C14_ZeroDelta ==
    [][\A p \in Procs : \A i \in Named(args[p].name) :
          args[p].delta = 0
          => /\ LeavesSelect(p) => pc'[p] = "update"
             /\ Commits(p)
                  => /\ result'.tool = "change_item_stock"
                     /\ result'.value[1] = "changed"
                     /\ items'[i].stock = items[i].stock
                     /\ Len(stock_history') = Len(stock_history) + 1
                     /\ stock_history'[Len(stock_history')].delta = 0
                     /\ stock_history'[Len(stock_history')].item_id = i]_vars

\* the last call was a successful adjustment by 0 and its event ends the log
C14_Witness ==
    /\ IsChange("changed")
    /\ result.value[5] = 0
    /\ result.value[3] = result.value[4]
    /\ stock_history[Len(stock_history)].delta = 0

\* C15: the event appended by a successful adjustment carries the id of the
\* item of that name, the call's delta, and the call's reason, or the empty
\* string when the call gave none.
C15_EventFields ==
    [][\A p \in Procs :
          Commits(p)
          => /\ Len(stock_history') = Len(stock_history) + 1
             /\ LET e == stock_history'[Len(stock_history')]
                IN  /\ e.item_id \in Named(args[p].name)
                    /\ Cardinality(Named(args[p].name)) = 1
                    /\ e.delta = args[p].delta
                    /\ e.reason = IF args[p].reason = None THEN ""
                                  ELSE args[p].reason
                    /\ e.reason # None]_vars

\* the last call was a successful adjustment without a reason and its event
\* holds the empty string
C15_Witness ==
    /\ IsChange("changed")
    /\ result.value[6] = "-"
    /\ stock_history[Len(stock_history)].reason = ""

\* the ids of the Stock Events of item i
EventsOfItem(i) == {k \in DOMAIN stock_history : stock_history[k].item_id = i}

\* the id of the event of item i appended last
LastEventOf(i) == CHOOSE k \in EventsOfItem(i) : \A j \in EventsOfItem(i) : j <= k

\* C16: in every committed state an item with at least one Stock Event has
\* updated_at equal to the created_at of the event of that item appended last.
C16_UpdatedAtIsLastEvent ==
    \A i \in ItemIds :
        EventsOfItem(i) # {}
        => items[i].updated_at = stock_history[LastEventOf(i)].created_at

\* an item has two events with different timestamps
C16_Witness ==
    \E i \in ItemIds :
        /\ Cardinality(EventsOfItem(i)) = 2
        /\ stock_history[1].created_at # stock_history[2].created_at
        /\ items[i].updated_at # SeedTime

\* C17: no Stock Event has a created_at earlier than that of an event with a
\* smaller id, whatever the interleaving of concurrent adjustments.
C17_CreatedAtMonotone ==
    \A a, b \in DOMAIN stock_history :
        a < b => TextLE(stock_history[a].created_at, stock_history[b].created_at)

\* C18: every Stock Event's item_id is the id of an item in the items table,
\* and the items table never loses a row.
C18_NoDanglingEvent ==
    /\ DOMAIN items = ItemIds
    /\ \A i \in ItemIds : items[i].id = i
    /\ \A k \in DOMAIN stock_history :
          \E i \in DOMAIN items : items[i].id = stock_history[k].item_id

\* the log holds events of two different items
C18_Witness ==
    /\ Len(stock_history) = 2
    /\ stock_history[1].item_id # stock_history[2].item_id

\* C19: the items table changes only in the step that commits an adjustment,
\* and then only in stock and updated_at of the adjusted item; lookup and
\* history change nothing of any item.
C19_OnlyStockAndUpdatedAt ==
    [][/\ \A i \in ItemIds :
             /\ items'[i].id = items[i].id
             /\ items'[i].name = items[i].name
             /\ items'[i].price = items[i].price
             /\ items'[i].created_at = items[i].created_at
       /\ items' # items
            => \E p \in Procs :
                  /\ Commits(p)
                  /\ row[p].item_id \in Named(args[p].name)
                  /\ \A j \in ItemIds \ {row[p].item_id} : items'[j] = items[j]
       /\ ReadOnlyStep => items' = items]_vars

\* the last call adjusted one item and every other item is as seeded
C19_Witness ==
    /\ IsChange("changed")
    /\ \E i \in Named(result.value[2]) :
          /\ items[i].stock # SeedItems[i].stock
          /\ items[i].updated_at # SeedTime
          /\ \A j \in ItemIds \ {i} :
                /\ items[j].stock = SeedItems[j].stock
                /\ items[j].updated_at = SeedTime

\* C20: every call that has ended, by a return or by an exception, ran
\* conn.close() on the connection it opened.
C20_EveryExitCloses == result.closed

====
